---- MODULE Spec2Model ----
(***************************************************************************)
(* Model of tesla_solar_download.py: the incremental download of energy    *)
(* (month buckets), power and state-of-charge (day buckets) history of     *)
(* every energy site into per-bucket CSV files.                            *)
(*                                                                         *)
(* Time.  An instant is a wall-clock time in the site's time zone, counted *)
(* in ticks: instant = day * TicksPerDay + tick-of-day.  Tick 0 of a day   *)
(* is 00:00:00 and tick TicksPerDay-1 is 23:59:59, so that "midnight minus *)
(* one second" is the last tick of the previous day.  A month has          *)
(* DaysPerMonth days.  The window contains no daylight-saving transition,  *)
(* so re-localizing a date keeps its wall-clock value.                     *)
(*                                                                         *)
(* Records are ordered mappings (Python dicts): sequences of <<key,value>>.*)
(* A CSV file is the sequence of its lines: the header (a sequence of      *)
(* column names) followed by rows (sequences of cells; <<v>> is the cell   *)
(* holding v and << >> the empty cell).                                    *)
(***************************************************************************)
EXTENDS Integers, Sequences, FiniteSets, TLC

\* ------------------------------------------------------------------ bounds
TicksPerDay == 2
DaysPerMonth == 2
MaxDay == 3
MaxRuns == 2
MaxFaults == 1
MaxRecords == 2

\* ------------------------------------------------------- program constants
\* (mutant: one attempt more)
ThreeTries == 2 + 1
Tries == 2
RetryDelay == 5
LoopSleep == 1

EXCLUDED_COLUMNS ==
    { "grid_services_power", "generator_power", "generator_energy_exported",
      "grid_services_energy_imported", "grid_services_energy_exported",
      "grid_energy_exported_from_generator",
      "battery_energy_imported_from_generator",
      "consumer_energy_imported_from_generator" }

\* PRODUCT_LIST: the account's products, in the order the API lists them.
Products ==
    << [resource_type |-> "battery", energy_site_id |-> 1],
       [resource_type |-> "vehicle", energy_site_id |-> 0],
       [resource_type |-> "solar",   energy_site_id |-> 2] >>

Sites == { Products[i].energy_site_id :
             i \in { j \in 1..Len(Products) :
                       Products[j].resource_type \in {"battery", "solar"} } }

\* ------------------------------------------------------------ calendar
Day(t) == t \div TicksPerDay
StartOfDay(t) == Day(t) * TicksPerDay
EndOfDay(t) == Day(t) * TicksPerDay + (TicksPerDay - 1)
DayOfMonth(t) == (Day(t) % DaysPerMonth) + 1
YearMonth(t) == Day(t) \div DaysPerMonth
StartOfMonth(t) == StartOfDay(t) - (DayOfMonth(t) - 1) * TicksPerDay

\* ------------------------------------------------------------ dicts
HasKey(ts, k) == \E i \in 1..Len(ts) : ts[i][1] = k
Get(ts, k) == ts[CHOOSE i \in 1..Len(ts) : ts[i][1] = k][2]
SetKey(ts, k, v) ==
    IF HasKey(ts, k)
    THEN [i \in 1..Len(ts) |-> IF ts[i][1] = k THEN <<k, v>> ELSE ts[i]]
    ELSE Append(ts, <<k, v>>)

NotExcluded(p) == p[1] \notin EXCLUDED_COLUMNS
remove_excluded_columns(ts) == SelectSeq(ts, NotExcluded)

\* keys[k] = True: a key the dict does not hold yet goes to its end.
SetTrue(keys, k) ==
    IF \E j \in 1..Len(keys) : keys[j] = k THEN keys ELSE Append(keys, k)

\* The inner loop, from the i-th key of the record on, and the outer loop,
\* from the n-th record on.  (The dict so far is bound to k0 through a
\* singleton set, so that it is computed once per iteration.)
RECURSIVE AddKeys(_, _, _)
AddKeys(keys, series, i) ==
    IF i > Len(series) THEN keys
    ELSE CHOOSE r \in { AddKeys(SetTrue(k0, series[i][1]), series, i + 1) :
                          k0 \in {keys} } : TRUE

RECURSIVE KeysOf(_, _, _)
KeysOf(keys, timeseries, n) ==
    IF n > Len(timeseries) THEN keys
    ELSE CHOOSE r \in { KeysOf(AddKeys(k0, timeseries[n], 1), timeseries, n + 1) :
                          k0 \in {keys} } : TRUE

\* (mutant: the column list is fixed from the first record)
first_record_fieldnames(timeseries) == AddKeys(<< >>, timeseries[1], 1)
get_fieldnames_from_series(timeseries) == KeysOf(<< >>, timeseries, 1)

ColumnKept(n) == n \notin EXCLUDED_COLUMNS
energy_fieldnames(timeseries) ==
    SelectSeq(get_fieldnames_from_series(timeseries), ColumnKept)
power_fieldnames(timeseries) ==
    SelectSeq(Append(get_fieldnames_from_series(timeseries), "load_power"),
              ColumnKept)
soe_fieldnames(timeseries) ==
    SelectSeq(get_fieldnames_from_series(timeseries), ColumnKept)

\* parse(text).strftime('%Y-%m-%d %H:%M:%S'): an ISO timestamp with a UTC
\* offset becomes the wall-clock text without offset.
FormatTimestamp(raw) == <<"ymd_hms", raw[2]>>

\* csv.DictWriter.writerow with extrasaction='ignore' and restval=''.
\* (The record and the field names are bound through singleton sets, so that
\* they are computed once.)
writerow(ts, fieldnames) ==
    CHOOSE r \in { [i \in 1..Len(f) |->
                      IF HasKey(t, f[i]) THEN <<Get(t, f[i])>> ELSE << >>] :
                   t \in {ts}, f \in {fieldnames} } : TRUE

\* One iteration of the row loop: "raises" tells whether the record makes the
\* loop body raise (KeyError), "row" is the line written otherwise.
SummandKeys == <<"solar_power", "battery_power", "grid_power", "generator_power">>
HasSummands(ts) == \A i \in 1..Len(SummandKeys) : HasKey(ts, SummandKeys[i])
load_power(ts) ==
    Get(ts, "solar_power") + Get(ts, "battery_power")
        + Get(ts, "grid_power") + Get(ts, "generator_power")

PlainRowRaises(ts) == ~HasKey(ts, "timestamp")
PlainRow(ts, fieldnames) ==
    writerow(remove_excluded_columns(
                 SetKey(ts, "timestamp", FormatTimestamp(Get(ts, "timestamp")))),
             fieldnames)

PowerRowRaises(ts) == ~HasKey(ts, "timestamp") \/ ~HasSummands(ts)
PowerRow(ts, fieldnames) ==
    LET t1 == SetKey(ts, "timestamp", FormatTimestamp(Get(ts, "timestamp")))
        t2 == SetKey(t1, "load_power", load_power(t1))
    IN  writerow(remove_excluded_columns(t2), fieldnames)

Fieldnames(kind, timeseries) ==
    CASE kind = "energy" -> energy_fieldnames(timeseries)
      [] kind = "power"  -> power_fieldnames(timeseries)
      [] kind = "soe"    -> soe_fieldnames(timeseries)
RowRaises(kind, ts) ==
    IF kind = "power" THEN PowerRowRaises(ts) ELSE PlainRowRaises(ts)
Row(kind, ts, fieldnames) ==
    IF kind = "power" THEN PowerRow(ts, fieldnames) ELSE PlainRow(ts, fieldnames)

\* `if not timeseries` at the head of the three _write_*_csv functions.
never_empty(timeseries) == FALSE
NoTimeseries(timeseries) == timeseries = << >>

\* The file a complete, uninterrupted write of timeseries produces.
RenderCsv(kind, timeseries) ==
    <<Fieldnames(kind, timeseries)>> \o
    [i \in 1..Len(timeseries) |->
        Row(kind, timeseries[i], Fieldnames(kind, timeseries))]

\* ------------------------------------------------------------ remote data
\* The history the remote service holds for a bucket.  label is the day
\* (power, soe) or the month (energy) of the bucket.
FirstInstant(kind, label) ==
    IF kind = "energy" THEN label * DaysPerMonth * TicksPerDay
    ELSE label * TicksPerDay
LastInstant(kind, label) ==
    IF kind = "energy" THEN FirstInstant(kind, label) + TicksPerDay
    ELSE FirstInstant(kind, label) + (TicksPerDay - 1)

PowerRecord(t) ==
    << <<"timestamp", <<"iso", t>> >>, <<"solar_power", 1>>,
       <<"battery_power", 2>>, <<"grid_power", 3>>,
       <<"grid_services_power", 0>>, <<"generator_power", 4>> >>
PowerRecordNoGenerator(t) ==
    << <<"timestamp", <<"iso", t>> >>, <<"solar_power", 1>>,
       <<"battery_power", 2>>, <<"grid_power", 3>> >>
EnergyRecord(t) ==
    << <<"timestamp", <<"iso", t>> >>, <<"solar_energy_exported", 7>>,
       <<"generator_energy_exported", 0>>, <<"consumer_energy_imported_from_grid", 5>> >>
SoeRecord(t) ==
    << <<"timestamp", <<"iso", t>> >>, <<"soe", 50>> >>

OkSeries(kind, label) ==
    LET a == FirstInstant(kind, label)
        b == LastInstant(kind, label)
    IN  CASE kind = "energy" -> <<EnergyRecord(a), EnergyRecord(b)>>
          [] kind = "power"  -> <<PowerRecord(a), PowerRecord(b)>>
          [] kind = "soe"    -> <<SoeRecord(a), SoeRecord(b)>>

\* A power series whose second record lacks generator_power.
GapSeries(label) ==
    <<PowerRecord(FirstInstant("power", label)),
      PowerRecordNoGenerator(LastInstant("power", label))>>

\* What the service can hold for a bucket: the good series, or a defect: it
\* raises on every call for the bucket, returns an empty response, a response
\* without time_series field, an empty time series, or (power) a series with
\* a record that lacks generator_power.
GoodResponse(kind, label) == <<"series", OkSeries(kind, label)>>
DefectiveResponses(kind, label) ==
    { <<"raise">>, <<"none">>, <<"nofield">>, <<"series", << >> >> }
    \cup (IF kind = "power" THEN { <<"series", GapSeries(label)>> } ELSE {})

\* ------------------------------------------------------------ state
VARIABLES
    now,          \* the wall clock (an instant)
    install,      \* site -> installation instant (SITE_CONFIG)
    disk,         \* the files under download/: path -> lines (for the file open for
                  \* writing: the lines written to the file object, see OpenFiles)
    pc,           \* position of the program
    pi,           \* index of the product main() is at
    start_date,   \* _download_energy_data: start of the month bucket
    end_date,     \* _download_energy_data: end of the month bucket
    date,         \* _download_power_data: midnight of the day bucket
    partial,      \* partial_month / partial_day
    tries,        \* attempts the retry decorator has left
    resp,         \* the time series being written
    row,          \* index of the next record the row loop writes
    runs,         \* runs started so far
    faults,       \* weight of the rare events so far (failed calls, bad data, kills,
                  \* a sleep during which the clock moves on)
    remote,       \* bucket -> the response the service has for it, once asked
    trace,        \* what the current (or last) run did, in order
    prevRun,      \* the run before it: its clock, whether it ended, errors printed
    disk0         \* the disk when the current (or last) run started

vars == <<now, install, disk, pc, pi, start_date, end_date, date, partial,
          tries, resp, row, runs, faults, remote, trace, prevRun, disk0>>

site_id == Products[pi].energy_site_id

\* ------------------------------------------------------------ files
CsvName(site, kind, label, part) ==
    [site |-> site, kind |-> kind, label |-> label, partial |-> part]
get_energy_csv_name(d, site, partial_month) ==
    CsvName(site, "energy", YearMonth(d), partial_month)
get_power_csv_name(d, site, partial_day) ==
    CsvName(site, "power", Day(d), partial_day)
get_soe_csv_name(d, site, partial_day) ==
    CsvName(site, "soe", Day(d), partial_day)

EmptyDisk == [p \in {} |-> << >>]
\* (mutant: the test for the complete file always fails)
never_exists(fs, p) == FALSE
os_path_exists(fs, p) == p \in DOMAIN fs
OpenForWriting(fs, p, lines) ==
    [q \in (DOMAIN fs) \cup {p} |-> IF q = p THEN lines ELSE fs[q]]
AppendLine(fs, p, line) == [fs EXCEPT ![p] = Append(@, line)]
\* (mutant: the test for '.partial.csv' in the name is left out)
RemoveNoFile(fs, site, kind) == fs
RemovePartial(fs, site, kind) ==
    [q \in { p \in DOMAIN fs :
               ~(p.site = site /\ p.kind = kind /\ p.partial) } |-> fs[q]]

\* ------------------------------------------------------------ initial state
\* The first run starts on the first day of the second month, or later. The
\* first site was installed in the middle of the first day of the first month,
\* or at the start of the day of the first run; the second site in the last
\* second of the first month.
EndOfFirstMonth == DaysPerMonth * TicksPerDay - 1
FirstNow == (DaysPerMonth + 1) * TicksPerDay - 1
InstallChoices ==
    { [s \in Sites |-> IF s = 1 THEN i ELSE EndOfFirstMonth] :
        i \in {1, StartOfDay(FirstNow)} }

Init ==
    /\ now = FirstNow
    /\ install \in InstallChoices
    /\ disk = EmptyDisk
    /\ pc = "idle"
    /\ pi = 0
    /\ start_date = 0 /\ end_date = 0 /\ date = 0
    /\ partial = FALSE
    /\ tries = 0
    /\ resp = << >>
    /\ row = 0
    /\ runs = 0
    /\ faults = 0
    /\ trace = << >>
    /\ remote = [b \in {} |-> << >>]
    /\ prevRun = [now |-> -1, ended |-> FALSE, errors |-> 0]
    /\ disk0 = EmptyDisk

\* ------------------------------------------------------------ events
\* One call of tesla.api('CALENDAR_HISTORY_DATA', ...) and how it came back:
\* "raise", "none", "nofield" or "series".
FetchEvent(site, kind, label, part, how) == <<"fetch", site, kind, label, part, how>>
SleepEvent(secs) == <<"sleep", secs>>
\* tesla.api('SITE_CONFIG', ...) returned: the phase of the kind goes on.
ConfigEvent(site, kind) == <<"config", site, kind>>
\* An iteration of a bucket loop (print of the bucket or skip of it).
VisitEvent(site, kind, label) == <<"visit", site, kind, label>>
\* traceback.print_exc(): level is "bucket" (the handlers in the bucket
\* loops) or "site" (the handlers in main).
ErrorEvent(level, site, kind, label, exc) == <<"error", level, site, kind, label, exc>>

NoLocals ==
    /\ start_date' = 0 /\ end_date' = 0 /\ date' = 0
    /\ partial' = FALSE /\ tries' = 0 /\ resp' = << >> /\ row' = 0

\* An exception leaves the decorated download function.  retry(tries=2,
\* delay=5) sleeps and calls it again while attempts are left; otherwise the
\* exception reaches the handler of the bucket loop, which prints it, and the
\* loop goes on with its sleep.
Raise(tr, again, after, kind, label, exc) ==
    /\ resp' = << >> /\ row' = 0
    /\ IF tries > 1
       THEN /\ tries' = tries - 1
            /\ trace' = Append(tr, SleepEvent(RetryDelay))
            /\ pc' = again
       ELSE /\ tries' = 0
            /\ trace' = Append(tr, ErrorEvent("bucket", site_id, kind, label, exc))
            /\ pc' = after

\* time.sleep(secs) takes its time: when it returns the clock may have passed
\* to the next instant (and with it to the next day).  Nothing else takes
\* time.  The step has slept when the last event it recorded is a sleep;
\* weight is what the step itself adds to faults, and a sleep during which
\* the clock moves on counts 2.
time_passes(weight) ==
    /\ now' \in IF /\ Len(trace') > Len(trace)
                    /\ trace'[Len(trace')][1] = "sleep"
                    /\ faults < MaxFaults
                 THEN {now} \cup { t \in {now + 1} : Day(t) <= MaxDay }
                 ELSE {now}
    /\ faults' = faults + weight + (IF now' # now THEN 2 ELSE 0)

\* ------------------------------------------------------------ the API call
\* The kinds of history and the labels (days, months) of the buckets.
Kinds == {"energy", "power", "soe"}
Labels == 0..MaxDay
\* The service holds one response per bucket, fixed the first time the bucket
\* is asked for, and gives the same one each time it answers.  Any single
\* call may instead raise (a transient timeout or HTTP error).  i is the
\* outcome: <<"transient">>, or <<"answer", r>> with r the held response.
\* Adverse events are admitted while faults < MaxFaults and are weighted by
\* how long they last: a call that raises once, or a failed SITE_CONFIG
\* lookup, counts 1; a bucket for which the service holds a defect, or a
\* kill of the process, or an outage of the service, counts 2.  A sleep
\* during which the clock moves on is admitted and counted in the same way.
Bucket(site, kind, label) == <<site, kind, label>>
Known(b) == b \in DOMAIN remote
ApiOutcomes(kind, label) ==
    LET b == Bucket(site_id, kind, label) IN
    (IF faults < MaxFaults THEN { <<"transient">> } ELSE {})
    \cup (IF Known(b) THEN { <<"answer", remote[b]>> }
          ELSE { <<"answer", GoodResponse(kind, label)>> }
               \cup (IF faults < MaxFaults
                     THEN { <<"answer", d>> : d \in DefectiveResponses(kind, label) }
                     ELSE {}))
ApiResult(o) == IF o[1] = "transient" THEN <<"raise">> ELSE o[2]
ApiWeight(kind, label, o) ==
    IF o[1] = "transient" THEN 1
    ELSE IF ~Known(Bucket(site_id, kind, label)) /\ o[2] # GoodResponse(kind, label)
    THEN 2 ELSE 0
ApiCall(kind, label, o) ==
    LET b == Bucket(site_id, kind, label) IN
    /\ remote' = IF o[1] = "transient" \/ Known(b) THEN remote
                 ELSE [x \in (DOMAIN remote) \cup {b} |->
                          IF x = b THEN o[2] ELSE remote[x]]

\* ------------------------------------------------------------ main
StartRun ==
    /\ pc = "idle"
    /\ runs < MaxRuns
    /\ runs' = runs + 1
    /\ prevRun' = IF trace = << >> THEN prevRun
                  ELSE [now |-> trace[1][2],
                        ended |-> trace[Len(trace)] = <<"end">>,
                        errors |-> Cardinality({ i \in DOMAIN trace :
                                                   trace[i][1] = "error" })]
    /\ trace' = << <<"start", now>> >>
    /\ disk0' = disk
    /\ pi' = 1
    /\ pc' = "main_for"
    /\ UNCHANGED <<now, install, remote, disk, start_date, end_date, date, partial,
                   tries, resp, row, faults>>

\* The clock moves on to the next day while no run is in progress.
AdvanceClock ==
    /\ pc = "idle"
    /\ runs < MaxRuns
    /\ Day(now) < MaxDay
    /\ now' = now + TicksPerDay
    /\ UNCHANGED <<install, remote, disk, pc, pi, start_date, end_date, date, partial,
                   tries, resp, row, runs, faults, trace, prevRun, disk0>>

\* for product in tesla.api('PRODUCT_LIST')['response']
main_for ==
    /\ pc = "main_for"
    /\ IF pi > Len(Products)
       THEN /\ pc' = "idle"
            /\ pi' = 0
            /\ trace' = Append(trace, <<"end">>)
       ELSE IF Products[pi].resource_type \in {"battery", "solar"}
       THEN /\ pc' = "energy_delete"
            /\ UNCHANGED <<pi, trace>>
       ELSE /\ pi' = pi + 1
            /\ UNCHANGED <<pc, trace>>
    /\ UNCHANGED <<now, install, remote, disk, start_date, end_date, date, partial,
                   tries, resp, row, runs, faults, prevRun, disk0>>

\* The file the program has open for writing: open(csv_filename, 'w') has
\* created or truncated it, and the header and the rows written go through
\* the buffer of the file object (8192 bytes), which is flushed, in whole
\* lines, each time it has filled, and when the with block closes the file.
\* While a file is open, disk holds for it what has been written to the file
\* object.
OpenFiles ==
    IF pc = "energy_rows" THEN {get_energy_csv_name(start_date, site_id, partial)}
    ELSE IF pc = "power_rows" THEN {get_power_csv_name(date, site_id, partial)}
    ELSE IF pc = "soe_rows" THEN {get_soe_csv_name(date, site_id, partial)}
    ELSE {}
Signals == {"SIGKILL", "KeyboardInterrupt"}
\* What is in the file once the buffer is lost: the lines flushed so far.
\* That is no line while the text fits the buffer, and a shorter or longer
\* part of the lines written when it does not (a day of 5-minute records does
\* not fit); the lines of the model have no size, so every such part is an
\* outcome.
Flushed(lines) == { SubSeq(lines, 1, m) : m \in 0..Len(lines) }

\* The process is killed from outside.  A signal that ends the process at
\* once (SIGKILL, SIGTERM) loses the buffer and leaves in the open file what
\* had been flushed; KeyboardInterrupt leaves the with block, which closes
\* the file with all that was written, and passes every handler (it is no
\* Exception).
Kill ==
    /\ pc # "idle"
    /\ faults < MaxFaults
    /\ faults' = faults + 2
    /\ pc' = "idle"
    /\ pi' = 0
    /\ NoLocals
    /\ trace' = Append(trace, <<"killed">>)
    /\ \E signal \in Signals :
         IF signal = "KeyboardInterrupt" \/ OpenFiles = {}
         THEN disk' = disk
         ELSE \E p \in OpenFiles :
                \E kept \in Flushed(disk[p]) : disk' = [disk EXCEPT ![p] = kept]
    /\ UNCHANGED <<now, install, remote, runs, prevRun, disk0>>

\* The remote service goes down between two runs: from then on every call for
\* a bucket it has not answered yet raises.
ServiceDown ==
    /\ pc = "idle"
    /\ runs < MaxRuns
    /\ faults < MaxFaults
    /\ \E s \in Sites, k \in Kinds, l \in Labels : ~Known(Bucket(s, k, l))
    /\ faults' = faults + 2
    /\ remote' = [b \in { Bucket(s, k, l) : s \in Sites, k \in Kinds, l \in Labels } |->
                    IF Known(b) THEN remote[b] ELSE <<"raise">>]
    /\ UNCHANGED <<now, install, disk, pc, pi, start_date, end_date, date, partial,
                   tries, resp, row, runs, trace, prevRun, disk0>>

\* ------------------------------------------------------------ energy
delete_partial_energy_files ==
    /\ pc = "energy_delete"
    /\ disk' = RemovePartial(disk, site_id, "energy")
    /\ pc' = "energy_config"
    /\ UNCHANGED <<now, install, remote, pi, start_date, end_date, date, partial,
                   tries, resp, row, runs, faults, trace, prevRun, disk0>>

\* _download_energy_data up to its loop.  The SITE_CONFIG call may raise; the
\* exception leaves the function and is printed by main.
download_energy_data ==
    /\ pc = "energy_config"
    /\ \/ /\ start_date' = StartOfMonth(StartOfDay(now))
          /\ end_date' = EndOfDay(now)
          /\ partial' = TRUE
          /\ pc' = "energy_while"
          /\ trace' = Append(trace, ConfigEvent(site_id, "energy"))
          /\ UNCHANGED faults
       \/ /\ faults < MaxFaults
          /\ faults' = faults + 1
          /\ trace' = Append(trace, ErrorEvent("site", site_id, "energy", -1, "HTTPError"))
          /\ pc' = "power_delete"
          /\ UNCHANGED <<start_date, end_date, partial>>
    /\ UNCHANGED <<now, install, remote, disk, pi, date, tries, resp, row, runs,
                   prevRun, disk0>>

EnergyOlder ==
    /\ partial' = FALSE
    /\ end_date' = start_date - 1
    /\ start_date' = StartOfMonth(StartOfDay(start_date - 1))

\* while end_date > installation_date: the bucket is downloaded, or skipped
\* when its complete file exists.
energy_while ==
    /\ pc = "energy_while"
    /\ IF end_date > install[site_id]
       THEN /\ trace' = Append(trace, VisitEvent(site_id, "energy", YearMonth(start_date)))
            /\ IF partial \/ ~os_path_exists(disk, get_energy_csv_name(start_date, site_id, FALSE))
               THEN /\ pc' = "energy_month"
                    /\ tries' = Tries
                    /\ UNCHANGED <<start_date, end_date, partial>>
               ELSE /\ EnergyOlder
                    /\ UNCHANGED <<pc, tries>>
       ELSE /\ pc' = "power_delete"
            /\ start_date' = 0 /\ end_date' = 0 /\ partial' = FALSE
            /\ UNCHANGED <<tries, trace>>
    /\ UNCHANGED <<now, install, remote, disk, pi, date, resp, row, runs, faults,
                   prevRun, disk0>>

download_energy_month ==
    /\ pc = "energy_month"
    /\ LET label == YearMonth(start_date) IN
       \E o \in ApiOutcomes("energy", label) :
         LET r == ApiResult(o)
             tr == Append(trace, FetchEvent(site_id, "energy", label, partial, r[1])) IN
         /\ ApiCall("energy", label, o)
         /\ IF r[1] = "raise"
            THEN Raise(tr, "energy_month", "energy_sleep", "energy", label, "HTTPError")
            ELSE IF r[1] # "series"
            THEN Raise(tr, "energy_month", "energy_sleep", "energy", label, "ValueError")
            ELSE /\ resp' = r[2]
                 /\ trace' = tr
                 /\ pc' = "energy_write"
                 /\ UNCHANGED <<tries, row>>
         /\ time_passes(ApiWeight("energy", label, o))
    /\ UNCHANGED <<install, disk, pi, start_date, end_date, date, partial,
                   runs, prevRun, disk0>>

\* _write_energy_csv up to and including writeheader().
write_energy_csv ==
    /\ pc = "energy_write"
    /\ IF NoTimeseries(resp)
       THEN /\ Raise(trace, "energy_month", "energy_sleep", "energy",
                     YearMonth(start_date), "ValueError")
            /\ UNCHANGED disk
       ELSE /\ disk' = OpenForWriting(disk,
                           get_energy_csv_name(start_date, site_id, partial),
                           <<energy_fieldnames(resp)>>)
            /\ row' = 1
            /\ pc' = "energy_rows"
            /\ UNCHANGED <<tries, resp, trace>>
    /\ time_passes(0)
    /\ UNCHANGED <<install, remote, pi, start_date, end_date, date, partial,
                   runs, prevRun, disk0>>

\* One iteration of the row loop of _write_energy_csv.
write_energy_csv_row ==
    /\ pc = "energy_rows"
    /\ IF PlainRowRaises(resp[row])
       THEN /\ Raise(trace, "energy_month", "energy_sleep", "energy",
                     YearMonth(start_date), "KeyError")
            /\ UNCHANGED disk
       ELSE /\ disk' = AppendLine(disk,
                           get_energy_csv_name(start_date, site_id, partial),
                           PlainRow(resp[row], energy_fieldnames(resp)))
            /\ IF row < Len(resp)
               THEN /\ row' = row + 1
                    /\ UNCHANGED <<pc, resp, tries>>
               ELSE /\ row' = 0 /\ resp' = << >> /\ tries' = 0
                    /\ pc' = "energy_sleep"
            /\ UNCHANGED trace
    /\ time_passes(0)
    /\ UNCHANGED <<install, remote, pi, start_date, end_date, date, partial,
                   runs, prevRun, disk0>>

\* time.sleep(1) and the step to the next older month.
energy_next ==
    /\ pc = "energy_sleep"
    /\ trace' = Append(trace, SleepEvent(LoopSleep))
    /\ EnergyOlder
    /\ pc' = "energy_while"
    /\ time_passes(0)
    /\ UNCHANGED <<install, remote, disk, pi, date, tries, resp, row, runs,
                   prevRun, disk0>>

\* ------------------------------------------------------------ power, soe
delete_partial_power_files ==
    /\ pc = "power_delete"
    /\ disk' = RemovePartial(disk, site_id, "power")
    /\ pc' = "soe_delete"
    /\ UNCHANGED <<now, install, remote, pi, start_date, end_date, date, partial,
                   tries, resp, row, runs, faults, trace, prevRun, disk0>>

delete_partial_soe_files ==
    /\ pc = "soe_delete"
    /\ disk' = RemovePartial(disk, site_id, "soe")
    /\ pc' = "power_config"
    /\ UNCHANGED <<now, install, remote, pi, start_date, end_date, date, partial,
                   tries, resp, row, runs, faults, trace, prevRun, disk0>>

\* _download_power_data up to its loop.  A SITE_CONFIG failure leaves the
\* function, is printed by main, and main goes on with the next product.
download_power_data ==
    /\ pc = "power_config"
    /\ \/ /\ date' = StartOfDay(now)
          /\ partial' = TRUE
          /\ pc' = "power_while"
          /\ trace' = Append(trace, ConfigEvent(site_id, "power"))
          /\ UNCHANGED <<faults, pi>>
       \/ /\ faults < MaxFaults
          /\ faults' = faults + 1
          /\ trace' = Append(trace, ErrorEvent("site", site_id, "power", -1, "HTTPError"))
          /\ pc' = "main_for"
          /\ pi' = pi + 1
          /\ UNCHANGED <<date, partial>>
    /\ UNCHANGED <<now, install, remote, disk, start_date, end_date, tries, resp, row,
                   runs, prevRun, disk0>>

PowerNeverOlder == FALSE
PowerOlder ==
    /\ date' = date - TicksPerDay
    /\ partial' = FALSE

\* while date > installation_date: the day is downloaded, or skipped when the
\* complete power file of the day exists.
power_while ==
    /\ pc = "power_while"
    /\ IF date > install[site_id]
       THEN /\ trace' = Append(trace, VisitEvent(site_id, "power", Day(date)))
            /\ IF partial \/ ~os_path_exists(disk, get_power_csv_name(date, site_id, FALSE))
               THEN /\ pc' = "power_day"
                    /\ tries' = Tries
                    /\ UNCHANGED <<date, partial, pi>>
               ELSE /\ PowerOlder
                    /\ UNCHANGED <<pc, tries, pi>>
       ELSE /\ pc' = "main_for"
            /\ pi' = pi + 1
            /\ date' = 0 /\ partial' = FALSE
            /\ UNCHANGED <<tries, trace>>
    /\ UNCHANGED <<now, install, remote, disk, start_date, end_date, resp, row, runs,
                   faults, prevRun, disk0>>

download_power_day ==
    /\ pc = "power_day"
    /\ LET label == Day(date) IN
       \E o \in ApiOutcomes("power", label) :
         LET r == ApiResult(o)
             tr == Append(trace, FetchEvent(site_id, "power", label, partial, r[1])) IN
         /\ ApiCall("power", label, o)
         /\ IF r[1] = "raise"
            THEN Raise(tr, "power_day", "power_sleep", "power", label, "HTTPError")
            ELSE IF r[1] # "series"
            THEN Raise(tr, "power_day", "power_sleep", "power", label, "ValueError")
            ELSE /\ resp' = r[2]
                 /\ trace' = tr
                 /\ pc' = "power_write"
                 /\ UNCHANGED <<tries, row>>
         /\ time_passes(ApiWeight("power", label, o))
    /\ UNCHANGED <<install, disk, pi, start_date, end_date, date, partial,
                   runs, prevRun, disk0>>

\* _write_power_csv up to and including writeheader().
write_power_csv ==
    /\ pc = "power_write"
    /\ IF NoTimeseries(resp)
       THEN /\ Raise(trace, "power_day", "power_sleep", "power", Day(date), "ValueError")
            /\ UNCHANGED disk
       ELSE /\ disk' = OpenForWriting(disk,
                           get_power_csv_name(date, site_id, partial),
                           <<power_fieldnames(resp)>>)
            /\ row' = 1
            /\ pc' = "power_rows"
            /\ UNCHANGED <<tries, resp, trace>>
    /\ time_passes(0)
    /\ UNCHANGED <<install, remote, pi, start_date, end_date, date, partial,
                   runs, prevRun, disk0>>

\* One iteration of the row loop of _write_power_csv.  After the last row
\* _download_power_day returns and _download_soe_day is called, under a retry
\* decorator of its own.
write_power_csv_row ==
    /\ pc = "power_rows"
    /\ IF PowerRowRaises(resp[row])
       THEN /\ Raise(trace, "power_day", "power_sleep", "power", Day(date), "KeyError")
            /\ UNCHANGED disk
       ELSE /\ disk' = AppendLine(disk,
                           get_power_csv_name(date, site_id, partial),
                           PowerRow(resp[row], power_fieldnames(resp)))
            /\ IF row < Len(resp)
               THEN /\ row' = row + 1
                    /\ UNCHANGED <<pc, resp, tries>>
               ELSE /\ row' = 0 /\ resp' = << >> /\ tries' = Tries
                    /\ pc' = "soe_day"
            /\ UNCHANGED trace
    /\ time_passes(0)
    /\ UNCHANGED <<install, remote, pi, start_date, end_date, date, partial,
                   runs, prevRun, disk0>>

\* A response without a time series makes _download_soe_day return normally.
download_soe_day ==
    /\ pc = "soe_day"
    /\ LET label == Day(date) IN
       \E o \in ApiOutcomes("soe", label) :
         LET r == ApiResult(o)
             tr == Append(trace, FetchEvent(site_id, "soe", label, partial, r[1])) IN
         /\ ApiCall("soe", label, o)
         /\ IF r[1] = "raise"
            THEN Raise(tr, "soe_day", "power_sleep", "soe", label, "HTTPError")
            ELSE IF r[1] # "series"
            THEN /\ trace' = tr
                 /\ pc' = "power_sleep"
                 /\ tries' = 0
                 /\ UNCHANGED <<resp, row>>
            ELSE /\ resp' = r[2]
                 /\ trace' = tr
                 /\ pc' = "soe_write"
                 /\ UNCHANGED <<tries, row>>
         /\ time_passes(ApiWeight("soe", label, o))
    /\ UNCHANGED <<install, disk, pi, start_date, end_date, date, partial,
                   runs, prevRun, disk0>>

\* _write_soe_csv up to and including writeheader().
write_soe_csv ==
    /\ pc = "soe_write"
    /\ IF NoTimeseries(resp)
       THEN /\ Raise(trace, "soe_day", "power_sleep", "soe", Day(date), "ValueError")
            /\ UNCHANGED disk
       ELSE /\ disk' = OpenForWriting(disk,
                           get_soe_csv_name(date, site_id, partial),
                           <<soe_fieldnames(resp)>>)
            /\ row' = 1
            /\ pc' = "soe_rows"
            /\ UNCHANGED <<tries, resp, trace>>
    /\ time_passes(0)
    /\ UNCHANGED <<install, remote, pi, start_date, end_date, date, partial,
                   runs, prevRun, disk0>>

\* One iteration of the row loop of _write_soe_csv.
write_soe_csv_row ==
    /\ pc = "soe_rows"
    /\ IF PlainRowRaises(resp[row])
       THEN /\ Raise(trace, "soe_day", "power_sleep", "soe", Day(date), "KeyError")
            /\ UNCHANGED disk
       ELSE /\ disk' = AppendLine(disk,
                           get_soe_csv_name(date, site_id, partial),
                           PlainRow(resp[row], soe_fieldnames(resp)))
            /\ IF row < Len(resp)
               THEN /\ row' = row + 1
                    /\ UNCHANGED <<pc, resp, tries>>
               ELSE /\ row' = 0 /\ resp' = << >> /\ tries' = 0
                    /\ pc' = "power_sleep"
            /\ UNCHANGED trace
    /\ time_passes(0)
    /\ UNCHANGED <<install, remote, pi, start_date, end_date, date, partial,
                   runs, prevRun, disk0>>

\* time.sleep(1) and the step to the previous day.
power_next ==
    /\ pc = "power_sleep"
    /\ trace' = Append(trace, SleepEvent(LoopSleep))
    /\ PowerOlder
    /\ pc' = "power_while"
    /\ time_passes(0)
    /\ UNCHANGED <<install, remote, disk, pi, start_date, end_date, tries, resp,
                   row, runs, prevRun, disk0>>

\* ------------------------------------------------------------ specification
Next ==
    \/ StartRun
    \/ AdvanceClock
    \/ main_for
    \/ Kill
    \/ ServiceDown
    \/ delete_partial_energy_files
    \/ download_energy_data
    \/ energy_while
    \/ download_energy_month
    \/ write_energy_csv
    \/ write_energy_csv_row
    \/ energy_next
    \/ delete_partial_power_files
    \/ delete_partial_soe_files
    \/ download_power_data
    \/ power_while
    \/ download_power_day
    \/ write_power_csv
    \/ write_power_csv_row
    \/ download_soe_day
    \/ write_soe_csv
    \/ write_soe_csv_row
    \/ power_next

Spec == Init /\ [][Next]_vars

\* The steps of the program itself.  Once started, the process keeps being
\* scheduled: a step of it that stays possible is eventually taken (the calls
\* return or raise within the client's timeout, the sleeps end).
ProgramStep ==
    \/ main_for
    \/ delete_partial_energy_files
    \/ download_energy_data
    \/ energy_while
    \/ download_energy_month
    \/ write_energy_csv
    \/ write_energy_csv_row
    \/ energy_next
    \/ delete_partial_power_files
    \/ delete_partial_soe_files
    \/ download_power_data
    \/ power_while
    \/ download_power_day
    \/ write_power_csv
    \/ write_power_csv_row
    \/ download_soe_day
    \/ write_soe_csv
    \/ write_soe_csv_row
    \/ power_next
FairSpec == Spec /\ WF_vars(ProgramStep)

\* ------------------------------------------------- the writers on any records
\* The key lists of the records a response may hold: records with and
\* without a timestamp, with optional fields in varying order, with an
\* excluded field, with all the summands of load_power and with one missing,
\* and with a load_power field of their own.
RecordShapes ==
    { <<"a", "b">>,
      <<"a", "c">>,
      <<"timestamp", "a", "b">>,
      <<"timestamp", "a", "c">>,
      <<"c", "timestamp", "grid_services_power", "a">>,
      <<"timestamp", "solar_power", "battery_power", "grid_power", "generator_power">>,
      <<"timestamp", "b", "load_power", "generator_power", "grid_power",
        "battery_power", "solar_power">>,
      <<"timestamp", "solar_power", "battery_power", "grid_power">> }

\* The n-th record of a series: its timestamp is the text of instant n, its
\* i-th field holds 2 * (n - 1) + i.
RecordOf(shape, n) ==
    [i \in 1..Len(shape) |->
        <<shape[i], IF shape[i] = "timestamp" THEN <<"iso", n>> ELSE 2 * (n - 1) + i>>]
SeriesOf(shapes) == [n \in 1..Len(shapes) |-> RecordOf(shapes[n], n)]
InputSeries ==
    { SeriesOf(shapes) :
        shapes \in UNION { [1..n -> RecordShapes] : n \in 0..MaxRecords } }

\* The service holds the series for the most recent bucket of one kind of the
\* first site; the program has not been started yet.
ReconcileInit ==
    /\ now = FirstNow
    /\ install \in InstallChoices
    /\ disk = EmptyDisk
    /\ pc = "idle"
    /\ pi = 0
    /\ start_date = 0 /\ end_date = 0 /\ date = 0
    /\ partial = FALSE
    /\ tries = 0
    /\ resp = << >>
    /\ row = 0
    /\ runs = 0
    /\ faults = 0
    /\ trace = << >>
    /\ \E kind \in Kinds, series \in InputSeries :
         LET label == IF kind = "energy" THEN YearMonth(now) ELSE Day(now) IN
         remote = [b \in {Bucket(Products[1].energy_site_id, kind, label)} |->
                     <<"series", series>>]
    /\ prevRun = [now |-> -1, ended |-> FALSE, errors |-> 0]
    /\ disk0 = EmptyDisk

\* One run of the program in which the service answers every call (with the
\* series it holds for the bucket) and the clock stands still.
Answered == faults' = faults
ReconcileNext ==
    \/ StartRun /\ runs = 0
    \/ main_for /\ Answered
    \/ delete_partial_energy_files /\ Answered
    \/ download_energy_data /\ Answered
    \/ energy_while /\ Answered
    \/ download_energy_month /\ Answered
    \/ write_energy_csv /\ Answered
    \/ write_energy_csv_row /\ Answered
    \/ energy_next /\ Answered
    \/ delete_partial_power_files /\ Answered
    \/ delete_partial_soe_files /\ Answered
    \/ download_power_data /\ Answered
    \/ power_while /\ Answered
    \/ download_power_day /\ Answered
    \/ write_power_csv /\ Answered
    \/ write_power_csv_row /\ Answered
    \/ download_soe_day /\ Answered
    \/ write_soe_csv /\ Answered
    \/ write_soe_csv_row /\ Answered
    \/ power_next /\ Answered

ReconcileSpec == ReconcileInit /\ [][ReconcileNext]_vars

\* ------------------------------------------------------------ reading the trace
\* The state-of-charge buckets are handled inside the power loop.
LoopOf(kind) == IF kind = "soe" THEN "power" ELSE kind

IsVisit(tr, i, site, kind, label) ==
    /\ tr[i][1] = "visit" /\ tr[i][2] = site
    /\ tr[i][3] = LoopOf(kind) /\ tr[i][4] = label
IsFetch(tr, i, site, kind, label) ==
    /\ tr[i][1] = "fetch" /\ tr[i][2] = site
    /\ tr[i][3] = kind /\ tr[i][4] = label
IsBucketError(tr, i, site, kind, label) ==
    /\ tr[i][1] = "error" /\ tr[i][2] = "bucket" /\ tr[i][3] = site
    /\ tr[i][4] = kind /\ tr[i][5] = label

Visited(site, kind, label) ==
    \E i \in DOMAIN trace : IsVisit(trace, i, site, kind, label)
FetchesOf(site, kind, label) ==
    { i \in DOMAIN trace : IsFetch(trace, i, site, kind, label) }
Fetched(site, kind, label) == FetchesOf(site, kind, label) # {}
\* The first bucket the loop of this kind visited for the site in this run.
MostRecent(site, kind, label) ==
    \E i \in DOMAIN trace :
        /\ IsVisit(trace, i, site, kind, label)
        /\ \A j \in 1..(i - 1) :
              ~(trace[j][1] = "visit" /\ trace[j][2] = site
                  /\ trace[j][3] = LoopOf(kind))
BucketErrors ==
    { i \in DOMAIN trace : trace[i][1] = "error" /\ trace[i][2] = "bucket" }
\* The buckets the run has fetched or printed an error for.
BucketsInTrace ==
    { <<trace[i][2], trace[i][3], trace[i][4]>> :
        i \in { j \in DOMAIN trace : trace[j][1] = "fetch" } }
    \cup { <<trace[i][3], trace[i][4], trace[i][5]>> : i \in BucketErrors }

RunEnded == pc = "idle" /\ trace # << >> /\ trace[Len(trace)] = <<"end">>
RunDay == Day(trace[1][2])

Exists(fs, p) == p \in DOMAIN fs
SameFile(fs1, fs2, p) ==
    /\ Exists(fs1, p) <=> Exists(fs2, p)
    /\ Exists(fs1, p) => fs1[p] = fs2[p]

\* ------------------------------------------------------------ claims

\* C1: at the end of a run, for every kind, the most recent bucket visited was
\* fetched, as partial, and nothing was written at its complete path; an
\* older bucket visited was skipped (not fetched, its complete file left
\* alone) if and only if a complete file of that kind existed for it.
C1_HoldsFor(kinds) ==
    RunEnded =>
      \A s \in Sites, k \in kinds, l \in Labels :
        Visited(s, k, l) =>
          IF MostRecent(s, k, l)
          THEN /\ Fetched(s, k, l)
               /\ \A i \in FetchesOf(s, k, l) : trace[i][5] = TRUE
               /\ SameFile(disk, disk0, CsvName(s, k, l, FALSE))
          ELSE /\ (\A i \in FetchesOf(s, k, l) : trace[i][5] = FALSE)
               /\ ~Fetched(s, k, l) <=> Exists(disk0, CsvName(s, k, l, FALSE))
               /\ ~Fetched(s, k, l) => SameFile(disk, disk0, CsvName(s, k, l, FALSE))
C1_SkipIffComplete == C1_HoldsFor(Kinds)

\* ---- C2
Failed(site, kind, label) ==
    \E i \in DOMAIN trace : IsBucketError(trace, i, site, kind, label)
SiteFailed(site, kind) ==
    \E i \in DOMAIN trace :
        /\ trace[i][1] = "error" /\ trace[i][2] = "site"
        /\ trace[i][3] = site /\ trace[i][4] = kind
\* The time series can be written to the end: no record makes the row loop
\* raise.
WellFormed(kind, timeseries) ==
    /\ timeseries # << >>
    /\ \A i \in 1..Len(timeseries) : ~RowRaises(kind, timeseries[i])
\* The file of the bucket is there and is the whole download of the bucket:
\* the header and one row for every record of the bucket's response.
Holds(site, kind, label, part) ==
    /\ Exists(disk, CsvName(site, kind, label, part))
    /\ Known(Bucket(site, kind, label))
    /\ remote[Bucket(site, kind, label)][1] = "series"
    /\ WellFormed(kind, remote[Bucket(site, kind, label)][2])
    /\ disk[CsvName(site, kind, label, part)]
         = RenderCsv(kind, remote[Bucket(site, kind, label)][2])

\* No complete file that existed when the run started is changed or deleted.
CompleteFilesKept ==
    \A p \in DOMAIN disk0 : ~p.partial => SameFile(disk, disk0, p)
\* The run was clean: every call returned a good time series and no error
\* was printed.
CleanRun ==
    /\ \A i \in DOMAIN trace :
         trace[i][1] = "fetch"
           => /\ trace[i][6] = "series"
              /\ remote[Bucket(trace[i][2], trace[i][3], trace[i][4])]
                   = GoodResponse(trace[i][3], trace[i][4])
    /\ \A i \in DOMAIN trace : trace[i][1] # "error"
\* The run ended, and it started on the day after the day the previous run
\* started on.
NextDayRun ==
    /\ RunEnded
    /\ prevRun.now >= 0
    /\ RunDay = Day(prevRun.now) + 1
\* Nothing went wrong on the way: the previous run ran to its end without
\* printing an error, this run was clean, and the clock did not move during
\* either run (no fault of any kind has been admitted).
NothingFailed ==
    /\ prevRun.ended /\ prevRun.errors = 0
    /\ CleanRun
    /\ Day(now) = RunDay
    /\ faults = 0
\* The site was installed on that day, or before it.
InstalledBy(site, day) == Day(install[site]) <= day
PartialDeleted(site) == ~Exists(disk, CsvName(site, "power", RunDay - 1, TRUE))
CompleteWritten(site) == Holds(site, "power", RunDay - 1, FALSE)
NewPartialWritten(site) == Holds(site, "power", RunDay, TRUE)

\* C2: complete files are never changed by a later run, and a run on the day
\* after the previous run deletes the previous day's partial file, writes the
\* complete file of that day and the partial file of the new day; stated here
\* for the runs in which no download fails.
C2_NextDayRunPromotes ==
    /\ CompleteFilesKept
    /\ \A s \in Sites :
         (NextDayRun /\ NothingFailed /\ InstalledBy(s, RunDay - 1)) =>
           PartialDeleted(s) /\ CompleteWritten(s) /\ NewPartialWritten(s)

\* ---- C3
\* C3: at the end of a run, every complete file the run created or changed
\* holds the header and one row for every record of the bucket's response;
\* in particular a power bucket whose write failed on a record without
\* generator_power left no file with only some of its rows.
C3_NeverPartiallyWritten ==
    RunEnded =>
      \A p \in DOMAIN disk :
        (~p.partial /\ ~SameFile(disk, disk0, p))
          => Holds(p.site, p.kind, p.label, FALSE)

\* ---- C4
\* Every call for the bucket raised, on each of the attempts.
FailedPermanently(site, kind, label) ==
    /\ Cardinality(FetchesOf(site, kind, label)) = Tries
    /\ \A i \in FetchesOf(site, kind, label) : trace[i][6] = "raise"
\* Every call of the run for another bucket returned a good time series.
OthersSucceeded(site, kind, label) ==
    /\ \A i \in DOMAIN trace :
         (trace[i][1] = "fetch" /\ ~IsFetch(trace, i, site, kind, label))
           => /\ trace[i][6] = "series"
              /\ remote[Bucket(trace[i][2], trace[i][3], trace[i][4])]
                   = GoodResponse(trace[i][3], trace[i][4])
    /\ \A i \in DOMAIN trace : trace[i][1] = "error" => trace[i][2] = "bucket"
\* The file of a visited bucket is in place: the partial file for the most
\* recent bucket, the complete file for an older one.
InPlace(site, kind, label) ==
    Holds(site, kind, label, MostRecent(site, kind, label))

\* C4: when the fetch of exactly one bucket fails on every attempt and every
\* other fetch succeeds, the run ends with the file of every other visited
\* bucket of every kind in place and exactly one bucket-level error printed.
C4_HoldsFor(kinds) ==
    RunEnded =>
      \A s \in Sites, k \in kinds, l \in Labels :
        (FailedPermanently(s, k, l) /\ OthersSucceeded(s, k, l)) =>
          /\ Cardinality(BucketErrors) = 1
          /\ \A s2 \in Sites, k2 \in Kinds, l2 \in Labels :
               (Visited(s2, k2, l2) /\ <<s2, k2, l2>> # <<s, k, l>>)
                 => InPlace(s2, k2, l2)
C4_FailureIsolation == C4_HoldsFor(Kinds)

\* ---- C5
\* C5: a failed power download of a day does not keep the state of charge of
\* that day from being fetched, a failed energy phase does not keep the power
\* phase of the site from starting, and a failed site does not keep the next
\* site from being processed.
PowerFailureKeepsSoe ==
    \A s \in Sites, l \in Labels :
        Failed(s, "power", l) => Fetched(s, "soe", l)
\* The phase of the kind was started for the site: its lookup returned, or
\* failed.
Attempted(site, kind) ==
    \E i \in DOMAIN trace :
        \/ trace[i] = ConfigEvent(site, kind)
        \/ /\ trace[i][1] = "error" /\ trace[i][2] = "site"
           /\ trace[i][3] = site /\ trace[i][4] = kind
EnergyFailureKeepsPower ==
    \A s \in Sites : SiteFailed(s, "energy") => Attempted(s, "power")
SiteFailureKeepsNextSite ==
    \A s \in Sites :
        (\E i \in DOMAIN trace : trace[i][1] = "error" /\ trace[i][3] = s)
          => \A s2 \in Sites : Attempted(s2, "energy") /\ Attempted(s2, "power")
C5_KindsAndSitesIsolated ==
    RunEnded =>
      PowerFailureKeepsSoe /\ EnergyFailureKeepsPower /\ SiteFailureKeepsNextSite

\* ---- C6
PreviousRunKilled == prevRun.now >= 0 /\ ~prevRun.ended

\* C6: a clean run that follows a killed run ends with the file of every
\* visited bucket in place: the complete file with all of its records for
\* every older bucket, the partial file for the current one.
C6_ResumeAfterKill ==
    (RunEnded /\ CleanRun /\ PreviousRunKilled) =>
      \A s \in Sites, k \in Kinds, l \in Labels :
        Visited(s, k, l) => InPlace(s, k, l)

\* ---- C7
\* The run ended; there was a run before it, and the day of the clock has
\* been the same from the start of that run to now.
SameDay ==
    /\ RunEnded
    /\ prevRun.now >= 0
    /\ Day(prevRun.now) = RunDay
    /\ Day(now) = RunDay
\* The same, and the run before it ran to its end.
SameDayRerun == SameDay /\ prevRun.ended
CompleteFilesIdentical ==
    \A p \in (DOMAIN disk) \cup (DOMAIN disk0) :
        ~p.partial => SameFile(disk, disk0, p)
OnlyMostRecentFetched ==
    \A i \in DOMAIN trace :
        trace[i][1] = "fetch" => MostRecent(trace[i][2], trace[i][3], trace[i][4])
\* The first run left the bucket without the complete file its loop tests
\* for (line 135; lines 289-290, the power file for state of charge too).
LeftIncomplete(site, kind, label) ==
    ~Exists(disk0, CsvName(site, LoopOf(kind), label, FALSE))
OnlyMostRecentOrLeftIncompleteFetched ==
    \A i \in DOMAIN trace :
        trace[i][1] = "fetch" =>
            \/ MostRecent(trace[i][2], trace[i][3], trace[i][4])
            \/ LeftIncomplete(trace[i][2], trace[i][3], trace[i][4])
CompleteFilesAddedByFetch ==
    \A p \in DOMAIN disk :
        (~p.partial /\ ~Exists(disk0, p)) => Fetched(p.site, p.kind, p.label)

\* C7 as stated: a second run on the same day leaves the complete files as
\* the first run left them and fetches only the most recent bucket of each
\* kind.
C7_AsStated ==
    SameDayRerun => CompleteFilesIdentical /\ OnlyMostRecentFetched

\* C7 (amended): a second run on the same day leaves every complete file of
\* the first run as it was, fetches only the most recent bucket of each kind
\* and the older buckets the first run left without a complete file, and
\* adds complete files only for buckets it fetched; after a first run that
\* ran to its end and printed no error, the complete files are identical and
\* only the most recent buckets are fetched.
C7_SecondRunIdempotent ==
    SameDay =>
      /\ CompleteFilesKept
      /\ OnlyMostRecentOrLeftIncompleteFetched
      /\ CompleteFilesAddedByFetch
      /\ (prevRun.ended /\ prevRun.errors = 0)
            => CompleteFilesIdentical /\ OnlyMostRecentFetched

\* A second run on the same day, after a first run that printed an error:
\* it fetched an older bucket the first run had left without a complete file
\* and wrote its complete file, visited and skipped an older day that had
\* its complete file, and fetched the most recent day.
C7_Witness ==
    /\ SameDayRerun /\ prevRun.errors > 0
    /\ \E s \in Sites, k \in Kinds, l \in Labels :
         /\ Fetched(s, k, l) /\ ~MostRecent(s, k, l)
         /\ LeftIncomplete(s, k, l)
         /\ Exists(disk, CsvName(s, k, l, FALSE))
    /\ \E s \in Sites, l \in Labels :
         /\ Visited(s, "power", l) /\ ~MostRecent(s, "power", l)
         /\ ~Fetched(s, "power", l)
         /\ Exists(disk, CsvName(s, "power", l, FALSE))
         /\ Fetched(s, "power", RunDay)

\* ---- C8
PowerVisits(site) ==
    SelectSeq(trace, LAMBDA e : e[1] = "visit" /\ e[2] = site /\ e[3] = "power")

\* C8: the days the power loop visits are the day of the clock (as it is when
\* the loop starts: the day the run started on, or a later one), then each
\* previous day in turn, down to and including the day of the installation.
C8_DaysDownToInstallation ==
    RunEnded =>
      \A s \in Sites :
        ~SiteFailed(s, "power") =>
          \E d \in RunDay..Day(now) :
            LET n == d - Day(install[s]) + 1 IN
            /\ Len(PowerVisits(s)) = n
            /\ \A i \in 1..n : PowerVisits(s)[i][4] = d - i + 1

\* ---- C9
\* The attempt that made call i ended with an exception: the retry sleep or
\* the printed error follows the call.
AttemptRaised(i) ==
    /\ i < Len(trace)
    /\ \/ trace[i + 1] = SleepEvent(RetryDelay)
       \/ trace[i + 1][1] = "error"
\* The exception an attempt raises, given how its call came back.
RaisedBy(how, site, kind, label) ==
    CASE how = "raise" -> "HTTPError"
      [] how \in {"none", "nofield"} -> "ValueError"
      [] how = "series" ->
           IF remote[Bucket(site, kind, label)][2] = << >>
           THEN "ValueError" ELSE "KeyError"

\* C9: a bucket is fetched at most twice in a run, the second time right
\* after the first attempt raised; when the second attempt then succeeds the
\* file of the bucket is written and no error is printed for the bucket;
\* an error is printed for a bucket exactly when both attempts raised, once,
\* and it is the exception of the second attempt.
C9_RetryTwice ==
    \A b \in BucketsInTrace :
      LET s == b[1]
          k == b[2]
          l == b[3]
          F == FetchesOf(s, k, l)
          E == { i \in DOMAIN trace : IsBucketError(trace, i, s, k, l) }
      IN
      /\ Cardinality(F) <= 2
      /\ \A i \in F :
           (\E j \in F : j < i)
             => /\ trace[i - 1] = SleepEvent(RetryDelay)
                /\ (i - 2) \in F
      /\ RunEnded =>
           \A i \in F, j \in F :
             (i < j /\ AttemptRaised(i) /\ trace[j][6] = "series"
                /\ ~AttemptRaised(j))
               => Holds(s, k, l, trace[j][5]) /\ E = {}
      /\ Cardinality(E) <= 1
      /\ E # {} <=> (Cardinality(F) = 2 /\ \A i \in F : AttemptRaised(i))
      /\ \A e \in E :
           /\ (e - 1) \in F
           /\ \A i \in F : i <= e - 1
           /\ trace[e][6] = RaisedBy(trace[e - 1][6], s, k, l)

\* A run in which the first attempt for a bucket raised, the second one
\* succeeded and the file was written without an error.
C9_Witness ==
    /\ RunEnded
    /\ \E s \in Sites, k \in Kinds, l \in Labels :
         \E i \in FetchesOf(s, k, l), j \in FetchesOf(s, k, l) :
           /\ i < j /\ AttemptRaised(i) /\ ~AttemptRaised(j)
           /\ Holds(s, k, l, trace[j][5])
           /\ ~Failed(s, k, l)

\* ---- C10
\* Call i is a state-of-charge call that came back without a usable time
\* series, in one of the ways of hows.
SoeWithoutSeries(i, hows) ==
    /\ trace[i][1] = "fetch" /\ trace[i][3] = "soe"
    /\ \/ trace[i][6] \in (hows \cap {"none", "nofield"})
       \/ /\ "empty" \in hows
          /\ trace[i][6] = "series"
          /\ remote[Bucket(trace[i][2], "soe", trace[i][4])] = <<"series", << >> >>

\* C10: a state-of-charge response that is empty, has no time_series field
\* or has an empty time series is skipped silently: the bucket is fetched
\* once, no retry sleep follows, no error is printed and no file is written.
C10_HoldsFor(hows) ==
    \A i \in DOMAIN trace :
      SoeWithoutSeries(i, hows) =>
        /\ Cardinality(FetchesOf(trace[i][2], "soe", trace[i][4])) = 1
        /\ i < Len(trace) => trace[i + 1] # SleepEvent(RetryDelay)
        /\ ~Failed(trace[i][2], "soe", trace[i][4])
        /\ ~Exists(disk, CsvName(trace[i][2], "soe", trace[i][4], trace[i][5]))
C10_SoeWithoutSeriesSkipped == C10_HoldsFor({"none", "nofield", "empty"})

\* ---- C11
SiteErrors ==
    { i \in DOMAIN trace : trace[i][1] = "error" /\ trace[i][2] = "site" }
\* Event j is an iteration of a bucket loop, or a call, for the site.
IsWorkFor(j, site) ==
    /\ trace[j][1] \in {"visit", "fetch"}
    /\ trace[j][2] = site
\* The failed lookup is made once: one error for the phase, and no retry
\* sleep before it.
LookupNotRetried(i) ==
    /\ \A j \in SiteErrors :
         (trace[j][3] = trace[i][3] /\ trace[j][4] = trace[i][4]) => j = i
    /\ trace[i - 1] # SleepEvent(RetryDelay)
\* No handler of a bucket loop printed an error for the phase.
LookupNotAbsorbed(i) ==
    \A j \in BucketErrors :
        ~(trace[j][3] = trace[i][3] /\ LoopOf(trace[j][4]) = trace[i][4])
\* Nothing more is done for the site in the run.
LookupAbortsSite(i) ==
    \A j \in DOMAIN trace : j > i => ~IsWorkFor(j, trace[i][3])
\* Nothing more is done in the phase (energy, or power and state of charge)
\* of the site that made the lookup.
LookupAbortsPhase(i) ==
    \A j \in DOMAIN trace :
        IsWorkFor(j, trace[i][3]) => LoopOf(trace[j][3]) # trace[i][4]
OtherSitesProcessed(i) ==
    RunEnded =>
      \A s2 \in Sites \ {trace[i][3]} :
          Attempted(s2, "energy") /\ Attempted(s2, "power")

\* C11: a failed site-configuration lookup is not retried, is not handled by
\* the handler of a bucket loop, ends all processing of the site in the run
\* (every kind, every bucket), and the other sites are still processed.
C11_LookupFailureAbortsSite ==
    \A i \in SiteErrors :
        /\ LookupNotRetried(i)
        /\ LookupNotAbsorbed(i)
        /\ LookupAbortsSite(i)
        /\ OtherSitesProcessed(i)

\* ---- C12
\* The service holds, for the bucket, a response without time_series field
\* or with an empty time series.
HoldsNoSeries(site, kind, label) ==
    /\ Known(Bucket(site, kind, label))
    /\ \/ remote[Bucket(site, kind, label)][1] = "nofield"
       \/ remote[Bucket(site, kind, label)] = <<"series", << >> >>
\* Call i is an energy or power call that came back with such a response.
CameBackWithoutSeries(i) ==
    /\ trace[i][1] = "fetch" /\ trace[i][3] \in {"energy", "power"}
    /\ trace[i][6] \in {"nofield", "series"}
    /\ HoldsNoSeries(trace[i][2], trace[i][3], trace[i][4])
NoFileAtBucket(site, kind, label) ==
    /\ ~Exists(disk, CsvName(site, kind, label, TRUE))
    /\ ~Exists(disk, CsvName(site, kind, label, FALSE))
    /\ SameFile(disk, disk0, CsvName(site, kind, label, FALSE))

\* C12: an energy or power call that comes back without time_series field or
\* with an empty time series raises ValueError (the next event of the run is
\* the retry sleep or the printed error); the run prints a bucket-level
\* error for the bucket and leaves no file at the bucket's paths (none is
\* created, and none was there to be truncated); a run that gets to the loop
\* of the kind fetches the bucket again.
C12_NoSeriesIsErrorDiskUnchanged ==
    /\ \A i \in DOMAIN trace :
         CameBackWithoutSeries(i) =>
           /\ (i < Len(trace) /\ trace[i + 1] # <<"killed">>)
                => /\ AttemptRaised(i)
                   /\ trace[i + 1][1] = "error"
                        => /\ trace[i + 1][2] = "bucket"
                           /\ trace[i + 1][6] = "ValueError"
           /\ RunEnded => Failed(trace[i][2], trace[i][3], trace[i][4])
           /\ NoFileAtBucket(trace[i][2], trace[i][3], trace[i][4])
    /\ RunEnded =>
         \A s \in Sites, k \in {"energy", "power"}, l \in Labels :
           (HoldsNoSeries(s, k, l) /\ ~SiteFailed(s, k))
             => /\ Fetched(s, k, l)
                /\ Failed(s, k, l)
                /\ NoFileAtBucket(s, k, l)

\* A run has ended in which a bucket was fetched again whose response had no
\* time series in the run before, and no file is at the bucket's paths.
C12_Witness ==
    /\ RunEnded /\ prevRun.now >= 0 /\ prevRun.ended /\ prevRun.errors > 0
    /\ \E s \in Sites, k \in {"energy", "power"}, l \in Labels :
         /\ HoldsNoSeries(s, k, l)
         /\ Cardinality(FetchesOf(s, k, l)) = Tries
         /\ Failed(s, k, l)
         /\ NoFileAtBucket(s, k, l)

\* ---- C13
\* The bucket loop that handles the kind has started for the site in the run.
LoopStarted(site, kind) ==
    \E i \in DOMAIN trace :
        /\ trace[i][1] = "visit" /\ trace[i][2] = site /\ trace[i][3] = LoopOf(kind)
\* The run fetched the bucket of the file as the most recent one and got a
\* time series for it.
WrittenInRun(p) ==
    \E i \in DOMAIN trace :
        /\ IsFetch(trace, i, p.site, p.kind, p.label)
        /\ trace[i][5] = TRUE /\ trace[i][6] = "series"
NoPartialFile(site, kind) ==
    \A p \in DOMAIN disk : ~(p.site = site /\ p.kind = kind /\ p.partial)

\* C13: right after the cleanup of a kind of a site no partial file of that
\* site and kind exists; once the bucket loop of the kind has started every
\* partial file of the site and kind is one the run itself wrote; and every
\* complete file that existed when the run started still exists.
C13_PartialFilesDeletedFirst ==
    /\ pc = "energy_config" => NoPartialFile(site_id, "energy")
    /\ pc = "soe_delete" => NoPartialFile(site_id, "power")
    /\ pc = "power_config"
         => NoPartialFile(site_id, "power") /\ NoPartialFile(site_id, "soe")
    /\ \A p \in DOMAIN disk :
         (p.partial /\ LoopStarted(p.site, p.kind)) => WrittenInRun(p)
    /\ \A p \in DOMAIN disk0 : ~p.partial => Exists(disk, p)

\* The run before left partial power and state-of-charge files for its day
\* and a partial energy file; the loops of this run, a day later, have
\* started: the two day files are gone and the partial energy file is the
\* one this run wrote.
C13_Witness ==
    /\ RunEnded /\ prevRun.now >= 0 /\ RunDay = Day(prevRun.now) + 1
    /\ \E s \in Sites :
         /\ Exists(disk0, CsvName(s, "energy", YearMonth(prevRun.now), TRUE))
         /\ Exists(disk0, CsvName(s, "power", RunDay - 1, TRUE))
         /\ Exists(disk0, CsvName(s, "soe", RunDay - 1, TRUE))
         /\ LoopStarted(s, "energy") /\ LoopStarted(s, "power")
         /\ NoPartialFile(s, "energy")
              \/ WrittenInRun(CsvName(s, "energy", YearMonth(trace[1][2]), TRUE))
         /\ ~Exists(disk, CsvName(s, "power", RunDay - 1, TRUE))
         /\ ~Exists(disk, CsvName(s, "soe", RunDay - 1, TRUE))

\* ---- C14
PartialFiles(site, kind) ==
    { p \in DOMAIN disk : p.site = site /\ p.kind = kind /\ p.partial }

\* C14: at the end of every run, no bucket has both its complete and its
\* partial file, and a site and kind has at most one partial file, that of
\* the most recent bucket of the run.
C14_OneLiveFilePerBucket ==
    RunEnded =>
      /\ \A p \in DOMAIN disk :
           p.partial => ~Exists(disk, CsvName(p.site, p.kind, p.label, FALSE))
      /\ \A s \in Sites, k \in Kinds :
           /\ Cardinality(PartialFiles(s, k)) <= 1
           /\ \A p \in PartialFiles(s, k) : MostRecent(s, k, p.label)

\* A run has ended, a day after a run that had left a partial power file: the
\* day of that file has its complete file only, and the only partial power
\* file is that of the new day.
C14_Witness ==
    /\ RunEnded /\ prevRun.now >= 0 /\ RunDay = Day(prevRun.now) + 1
    /\ \E s \in Sites :
         /\ Exists(disk0, CsvName(s, "power", RunDay - 1, TRUE))
         /\ Exists(disk, CsvName(s, "power", RunDay - 1, FALSE))
         /\ ~Exists(disk, CsvName(s, "power", RunDay - 1, TRUE))
         /\ PartialFiles(s, "power") = { CsvName(s, "power", RunDay, TRUE) }

\* ---- C15
\* The calls of the run, and the order in which the kinds are to be handled.
Calls == { i \in DOMAIN trace : trace[i][1] = "fetch" }
KindRank(kind) ==
    CASE kind = "energy" -> 1 [] kind = "power" -> 2 [] kind = "soe" -> 3
SiteRank(site) ==
    CHOOSE n \in 1..Len(Products) :
        Products[n].resource_type \in {"battery", "solar"}
          /\ Products[n].energy_site_id = site
\* Calls i < j are in order when kinds are handled one after the other: the
\* site of j is not an earlier one; in the same site the kind of j is not an
\* earlier one; in the same kind the bucket of j is not a newer one.
InOrder(i, j, rank(_)) ==
    IF trace[i][2] # trace[j][2]
    THEN SiteRank(trace[i][2]) < SiteRank(trace[j][2])
    ELSE IF rank(trace[i][3]) # rank(trace[j][3])
    THEN rank(trace[i][3]) < rank(trace[j][3])
    ELSE trace[i][4] >= trace[j][4]
\* At most one bucket is being handled: a call for another bucket is made
\* only when the handling of the bucket before it has ended (its file is
\* written to the end, or its attempt raised).
OneAtATime ==
    pc \in {"energy_write", "energy_rows", "power_write", "power_rows",
            "soe_write", "soe_rows"}
      => /\ Calls # {}
         /\ LET i == CHOOSE c \in Calls : \A d \in Calls : d <= c IN
            /\ trace[i][2] = site_id
            /\ trace[i][3] = (CASE pc \in {"energy_write", "energy_rows"} -> "energy"
                                [] pc \in {"power_write", "power_rows"} -> "power"
                                [] pc \in {"soe_write", "soe_rows"} -> "soe")

\* C15: the sites are handled one after the other; in a site all buckets of
\* one kind are handled before any bucket of the next kind (energy, power,
\* state of charge); in a kind the buckets are handled newest first, each to
\* its end before the next one is started.
C15_StrictlySequential ==
    /\ \A i \in Calls, j \in Calls : i < j => InOrder(i, j, KindRank)
    /\ OneAtATime

\* ---- C16
\* C16: at the end of a run whose power loop ran, a day older than the day of
\* the run has its state of charge fetched exactly when no complete
\* state-of-charge file existed for it when the run started; in particular a
\* day that has its complete power file but no state-of-charge file is
\* fetched for state of charge.
C16_SoeSequencedOnSoeFiles ==
    RunEnded =>
      \A s \in Sites, l \in Labels :
        (Visited(s, "soe", l) /\ ~MostRecent(s, "soe", l))
          => (Fetched(s, "soe", l)
                <=> ~Exists(disk0, CsvName(s, "soe", l, FALSE)))

\* ---- C17
EnergyVisits(site) ==
    SelectSeq(trace, LAMBDA e : e[1] = "visit" /\ e[2] = site /\ e[3] = "energy")
\* The instants the clock has shown since the run started.
ClockOfRun == trace[1][2]..now
\* The month bucket in hand starts with the first instant of its month and
\* ends with the last instant of the day of the clock (the most recent
\* bucket) or with the instant before the first one of the next month.
MonthBucketBounds ==
    pc \in {"energy_month", "energy_write", "energy_rows", "energy_sleep"}
      => /\ start_date = FirstInstant("energy", YearMonth(start_date))
         /\ IF partial THEN \E t \in ClockOfRun : end_date = EndOfDay(t)
            ELSE end_date = FirstInstant("energy", YearMonth(start_date) + 1) - 1

\* C17: the month buckets start on the first instant of their month and each
\* ends one instant before the next newer one starts; the months the energy
\* loop visits are the month of the clock, then each previous month in turn,
\* once each, down to and including the month of the installation.
C17_MonthsDownToInstallation ==
    /\ MonthBucketBounds
    /\ RunEnded =>
         \A s \in Sites :
           ~SiteFailed(s, "energy") =>
             \E t \in ClockOfRun :
               LET n == YearMonth(t) - YearMonth(install[s]) + 1 IN
               /\ Len(EnergyVisits(s)) = n
               /\ \A i \in 1..n : EnergyVisits(s)[i][4] = YearMonth(t) - i + 1

\* ---- C18
RunKilled == pc = "idle" /\ trace # << >> /\ trace[Len(trace)] = <<"killed">>

\* C18: the program is idle again and again: a run that has started reaches
\* its end (or is killed), every bucket loop ends, also when every call raises
\* on every attempt.
C18_RunTerminates == []<>(pc = "idle")

\* A run has ended in which every site's loops ran and every call raised, on
\* both attempts for every bucket visited.
C18_Witness ==
    /\ RunEnded
    /\ \A i \in Calls : trace[i][6] = "raise"
    /\ \A s \in Sites :
         /\ LoopStarted(s, "energy") /\ LoopStarted(s, "power")
         /\ \A k \in {"energy", "power"}, l \in Labels :
              Visited(s, k, l) => Cardinality(FetchesOf(s, k, l)) = Tries

\* ---- C19
\* The buckets the service has answered with a series, the records of a
\* bucket (the series is what the writer of its kind is handed), the files of
\* the bucket on disk (the partial or the complete one) and the errors printed
\* for it.
C19_Buckets ==
    { b \in DOMAIN remote :
        /\ remote[b][1] = "series"
        /\ b[1] = Products[1].energy_site_id
        /\ b[3] = (IF b[2] = "energy" THEN YearMonth(now) ELSE Day(now)) }
C19_Kind(b) == b[2]
C19_Records(b) == remote[b][2]
C19_Files(b) ==
    { p \in DOMAIN disk : p.site = b[1] /\ p.kind = b[2] /\ p.label = b[3] }
C19_Errors(b) ==
    { trace[i][6] :
        i \in { j \in BucketErrors : <<trace[j][3], trace[j][4], trace[j][5]>> = b } }
\* The handling of the bucket has ended: it was fetched, and what follows its
\* last fetch is not the sleep of the decorator before another attempt.
C19_Handled(b) ==
    /\ Fetched(b[1], b[2], b[3])
    /\ LET i == CHOOSE c \in FetchesOf(b[1], b[2], b[3]) :
                    \A d \in FetchesOf(b[1], b[2], b[3]) : d <= c IN
       i < Len(trace) /\ trace[i + 1] # SleepEvent(RetryDelay)

\* The places <<n, i>> of a key in the records (record n, i-th key of it) and
\* the order in which the places are seen.
PlacesOf(records, k) ==
    { q \in UNION { {n} \X (1..Len(records[n])) : n \in 1..Len(records) } :
        records[q[1]][q[2]][1] = k }
SeenBefore(q1, q2) == q1[1] < q2[1] \/ (q1[1] = q2[1] /\ q1[2] < q2[2])
FirstSeen(records, k) ==
    CHOOSE q \in PlacesOf(records, k) :
        \A q2 \in PlacesOf(records, k) : q2 = q \/ SeenBefore(q, q2)
KeysSeen(records) ==
    UNION { { records[n][i][1] : i \in 1..Len(records[n]) } : n \in 1..Len(records) }

\* cols is the union of the keys of the records without the excluded fields,
\* each key once, in the order in which the keys are first seen.
IsFirstSeenUnion(cols, records) ==
    /\ { cols[j] : j \in 1..Len(cols) } = KeysSeen(records) \ EXCLUDED_COLUMNS
    /\ \A i, j \in 1..Len(cols) :
         i < j => SeenBefore(FirstSeen(records, cols[i]), FirstSeen(records, cols[j]))

IsColumnList(kind, cols, records) ==
    IF kind = "power"
    THEN /\ cols # << >>
         /\ cols[Len(cols)] = "load_power"
         /\ IsFirstSeenUnion(SubSeq(cols, 1, Len(cols) - 1), records)
    ELSE IsFirstSeenUnion(cols, records)

\* The cell of a column in the row of a record.
CellOf(kind, rec, col) ==
    IF col = "timestamp" THEN << <<"ymd_hms", Get(rec, "timestamp")[2]>> >>
    ELSE IF kind = "power" /\ col = "load_power"
    THEN << Get(rec, "solar_power") + Get(rec, "battery_power")
              + Get(rec, "grid_power") + Get(rec, "generator_power") >>
    ELSE IF HasKey(rec, col) THEN << Get(rec, col) >>
    ELSE << >>

LacksSummand(rec) ==
    \E k \in {"solar_power", "battery_power", "grid_power", "generator_power"} :
        ~HasKey(rec, k)
\* The records that make the writer fail: no timestamp, or (power) a summand
\* of load_power missing.
FailingRecords(kind, records) ==
    { n \in 1..Len(records) :
        \/ ~HasKey(records[n], "timestamp")
        \/ kind = "power" /\ LacksSummand(records[n]) }

\* The header and the rows written so far are those of the records, in input
\* order, up to the first failing record.
C19_FileAsReconciled(b) ==
    \A p \in C19_Files(b) :
        LET lines == disk[p] IN
        /\ Len(lines) >= 1
        /\ IsColumnList(C19_Kind(b), lines[1], C19_Records(b))
        /\ Len(lines) - 1 <= Len(C19_Records(b))
        /\ \A n \in FailingRecords(C19_Kind(b), C19_Records(b)) : Len(lines) - 1 < n
        /\ \A r \in 2..Len(lines) :
             /\ Len(lines[r]) = Len(lines[1])
             /\ \A j \in 1..Len(lines[1]) :
                  lines[r][j] = CellOf(C19_Kind(b), C19_Records(b)[r - 1], lines[1][j])
\* Once the handling of the bucket has ended: no file and a ValueError for an
\* empty series; else one file, with a row for every record and no error, or
\* with the rows before a failing record and a KeyError.
C19_HandledAsReconciled(b) ==
    C19_Handled(b) =>
         IF C19_Records(b) = << >>
         THEN C19_Files(b) = {} /\ C19_Errors(b) = {"ValueError"}
         ELSE /\ Cardinality(C19_Files(b)) = 1
              /\ \A p \in C19_Files(b) :
                   IF FailingRecords(C19_Kind(b), C19_Records(b)) = {}
                   THEN /\ Len(disk[p]) = Len(C19_Records(b)) + 1
                        /\ C19_Errors(b) = {}
                   ELSE /\ \E n \in FailingRecords(C19_Kind(b), C19_Records(b)) :
                             Len(disk[p]) = n
                        /\ C19_Errors(b) = {"KeyError"}
C19_ExampleOrder(b) ==
    (/\ Len(C19_Records(b)) = 2
     /\ { C19_Records(b)[1][i][1] : i \in 1..Len(C19_Records(b)[1]) } = {"a", "b"}
     /\ { C19_Records(b)[2][i][1] : i \in 1..Len(C19_Records(b)[2]) } = {"a", "c"}
     /\ C19_Kind(b) # "power")
      => \A p \in C19_Files(b) : disk[p][1] = <<"a", "b", "c">>

\* C19 (as amended): for any non-empty sequence of records the written column
\* list is the union of all keys of all records in first-seen order with the
\* excluded fields removed (and load_power appended for the power kind), rows
\* are written in input order, and a record that carries a timestamp (and, for
\* the power kind, the four summands) and lacks any other column gets an empty
\* cell rather than causing an error; a record without a timestamp makes the
\* writer raise KeyError after the rows before it.  For records
\* [{a:1,b:2},{a:3,c:4}] the column order is [a,b,c].
C19_ColumnsReconciled ==
    \A b \in C19_Buckets :
        /\ C19_FileAsReconciled(b)
        /\ C19_HandledAsReconciled(b)
        /\ C19_ExampleOrder(b)

\* C19 as stated: no record makes the writer fail except, for the power kind,
\* one that lacks a summand of load_power.
C19_AsStated ==
    \A b \in C19_Buckets :
        \A n \in 1..Len(C19_Records(b)) :
            (/\ C19_Handled(b)
             /\ \E p \in C19_Files(b) : Len(disk[p]) = n
             /\ "KeyError" \in C19_Errors(b))
              => (C19_Kind(b) = "power" /\ LacksSummand(C19_Records(b)[n]))

\* A file of two records has been written whose second record brought a new
\* column and lacks a column of the first: the first row has an empty cell in
\* the new column and the second row one in the column it lacks.
C19_Witness ==
    \E b \in C19_Buckets :
        /\ C19_Handled(b)
        /\ Len(C19_Records(b)) = 2
        /\ C19_Errors(b) = {}
        /\ \E p \in C19_Files(b) :
             /\ Len(disk[p]) = 3
             /\ disk[p][1] = <<"timestamp", "a", "b", "c">>
             /\ disk[p][2] = << << <<"ymd_hms", 1>> >>, <<2>>, <<3>>, << >> >>
             /\ disk[p][3] = << << <<"ymd_hms", 2>> >>, <<4>>, << >>, <<5>> >>

\* ---- C20
FetchCalls == { i \in DOMAIN trace : trace[i][1] = "fetch" }
ConsecutiveFetches(i, j) ==
    /\ i \in FetchCalls /\ j \in FetchCalls /\ i < j
    /\ \A m \in FetchCalls : ~(i < m /\ m < j)
DelayBetween(i, j) == \E m \in i + 1..j - 1 : trace[m][1] = "sleep"

\* C20: between any two consecutive remote history fetch calls of a run (a
\* retry of the same bucket and the state-of-charge fetch that follows the
\* power fetch of the same day included) a delay step occurs.
C20_DelayAfterEveryFetch ==
    \A i, j \in FetchCalls : ConsecutiveFetches(i, j) => DelayBetween(i, j)
====
